---- MODULE Spec2Model ----
(***************************************************************************)
(* MorphoMoss, analyze.py: measure_tooth_length and the command-line       *)
(* entry point, as a state machine of one Python process.                  *)
(*                                                                         *)
(* Numbers.  Every length the program computes is a sum of distances       *)
(* between consecutive contour points.  cv2.findContours is called with    *)
(* CHAIN_APPROX_SIMPLE, so consecutive points are joined by a horizontal,  *)
(* a vertical or a diagonal run and every distance is n or n*sqrt(2).  A   *)
(* float is therefore modelled exactly as (a + b*sqrt(2))/d, kept in       *)
(* lowest terms, extended with inf and nan; rounding error of the          *)
(* floating-point operations is not modelled.                              *)
(*                                                                         *)
(* Library calls.  cv2.imread, cv2.cvtColor, cv2.Canny and                 *)
(* cv2.findContours are deterministic functions of their argument.  A      *)
(* file is identified with what the decoder and the edge/contour pipeline  *)
(* make of it: undecodable, or an image whose detected contours are a      *)
(* given list ("scene").                                                   *)
(***************************************************************************)
EXTENDS Integers, Sequences, FiniteSets

\* ---------------------------------------------------------------- bounds
\* most contours detected in one image
MaxContours == 2
\* most points of one contour
MaxPts == 2

\* ------------------------------------------------------- exact arithmetic
Abs(x) == IF x < 0 THEN -x ELSE x

\* greatest common divisor, Euclid's algorithm
GCD[x \in Nat, y \in Nat] == IF y = 0 THEN x ELSE GCD[y, x % y]

\* Python's None, where a float is expected
None == [k |-> "None", a |-> 0, b |-> 0, d |-> 1]

Inf == [k |-> "inf", a |-> 0, b |-> 0, d |-> 1]

NegInf == [k |-> "-inf", a |-> 0, b |-> 0, d |-> 1]

NaN == [k |-> "nan", a |-> 0, b |-> 0, d |-> 1]

\* the finite float (a + b*sqrt(2))/d in lowest terms, d > 0
Fin[a \in Int, b \in Int, d \in Int] ==
  LET s == IF d < 0 THEN -1 ELSE 1
      g == GCD[GCD[Abs(a), Abs(b)], Abs(d)]
  IN  [k |-> "fin", a |-> (s * a) \div g, b |-> (s * b) \div g, d |-> Abs(d) \div g]

Zero == Fin[0, 0, 1]

IsZero(x) == x.k = "fin" /\ x.a = 0 /\ x.b = 0

\* a + b*sqrt(2) >= 0
NonNegPart(a, b) ==
  IF a >= 0 /\ b >= 0 THEN TRUE
  ELSE IF a <= 0 /\ b <= 0 THEN a = 0 /\ b = 0
  ELSE IF a > 0 THEN a * a >= 2 * b * b
  ELSE 2 * b * b >= a * a

\* x >= 0 as Python compares floats (nan compares false)
NonNeg(x) ==
  \/ x.k = "inf"
  \/ x.k = "fin" /\ NonNegPart(x.a, x.b)

Positive(x) == NonNeg(x) /\ ~IsZero(x)

\* every float of the model, and None
Floats == [k : {"None", "fin", "inf", "-inf", "nan"}, a : Int, b : Int, d : Int]

\* float addition of non-negative operands
FAdd[x \in Floats, y \in Floats] ==
  IF x.k = "nan" \/ y.k = "nan" THEN NaN
  ELSE IF x.k = "inf" \/ y.k = "inf" THEN Inf
  ELSE Fin[x.a * y.d + y.a * x.d, x.b * y.d + y.b * x.d, x.d * y.d]

\* float division by a positive integer
FDivInt[x \in Floats, n \in Nat] == IF x.k = "fin" THEN Fin[x.a, x.b, x.d * n] ELSE x

IsInfinite(x) == x.k \in {"inf", "-inf"}

\* float multiplication, the right operand rational, infinite or nan
FMul[x \in Floats, y \in Floats] ==
  IF x.k = "nan" \/ y.k = "nan" THEN NaN
  ELSE IF IsInfinite(x) \/ IsInfinite(y)
    THEN IF IsZero(x) \/ IsZero(y) THEN NaN
         ELSE IF NonNeg(x) = NonNeg(y) THEN Inf ELSE NegInf
  ELSE Fin[x.a * y.a, x.b * y.a, x.d * y.d]

\* ---------------------------------------------------------------- inputs
\* pixel positions the contour points are drawn from
Points == {<<0, 0>>, <<2, 0>>, <<3, 1>>}

\* p and q are the two ends of a horizontal, vertical or diagonal run
IsRun(p, q) ==
  /\ p # q
  /\ \/ p[1] = q[1]
     \/ p[2] = q[2]
     \/ Abs(p[1] - q[1]) = Abs(p[2] - q[2])

\* the point sequences cv2.findContours can return as one contour
ContourPool ==
  UNION {{c \in [1..n -> Points] : \A j \in 1..(n - 1) : IsRun(c[j], c[j + 1])} :
         n \in 1..MaxPts}

\* the lists of contours the edge/contour pipeline can detect in an image
Scenes == UNION {[1..n -> ContourPool] : n \in 0..MaxContours}

NoFile == [file |-> "missing", scene |-> <<>>]

BadFile == [file |-> "corrupt", scene |-> <<>>]

ImageFile(s) == [file |-> "image", scene |-> s]

\* image paths, each standing for the file it resolves to
Paths == {NoFile, BadFile} \cup {ImageFile(s) : s \in Scenes}

\* values of the scale_um_per_pixel argument
ScaleArgs == {None, Fin[-1, 0, 1], Zero, Fin[1, 0, 2], Fin[2, 0, 1], Inf}

\* float(s) of line 69; ValueError for text that is no number
ParseFloat(s) ==
  CASE s = "-1" -> Fin[-1, 0, 1]
    [] s = "0" -> Zero
    [] s = "0.5" -> Fin[1, 0, 2]
    [] s = "2" -> Fin[2, 0, 1]
    [] s = "inf" -> Inf
    [] OTHER -> [k |-> "ValueError", a |-> 0, b |-> 0, d |-> 1]

\* text of the optional second command-line argument
ScaleStrings == {"-1", "0", "0.5", "2", "inf", "abc"}

ProgName == "analyze.py"

\* command lines
Argvs ==
  {<<ProgName>>} \cup {<<ProgName, p>> : p \in Paths}
    \cup {<<ProgName, p, s>> : p \in Paths, s \in ScaleStrings}

\* ------------------------------------------------------- library functions
\* a local variable that has not been assigned in the current call
Unbound == [val |-> "unbound", channels |-> 0, scene |-> <<>>]

\* cv2.imread: a 3-channel pixel array, or None when the file cannot be decoded
imread(path) ==
  IF path.file = "image"
  THEN [val |-> "array", channels |-> 3, scene |-> path.scene]
  ELSE [val |-> "None", channels |-> 0, scene |-> <<>>]

\* cv2.cvtColor(img, COLOR_BGR2GRAY): one channel, same picture
cvtColor(array) == [val |-> "array", channels |-> 1, scene |-> array.scene]

\* cv2.Canny(gray, 50, 150): the binary edge mask of the picture
Canny(array) == [val |-> "mask", channels |-> 1, scene |-> array.scene]

\* cv2.findContours(edges, RETR_EXTERNAL, CHAIN_APPROX_SIMPLE)
findContours(mask) == mask.scene

\* distance between the two ends of a run, as a float
Dist(p, q) ==
  LET dx == Abs(p[1] - q[1])
      dy == Abs(p[2] - q[2])
  IN  IF dx = 0 THEN Fin[dy, 0, 1]
      ELSE IF dy = 0 THEN Fin[dx, 0, 1]
      ELSE Fin[0, dx, 1]

RECURSIVE PolyLine(_, _)
\* sum of the distances between the first n points of curve, in order
PolyLine(curve, n) ==
  IF n <= 1 THEN Zero
  ELSE FAdd[PolyLine(curve, n - 1), Dist(curve[n - 1], curve[n])]

\* arcLength that always adds the closing segment
arcLengthClosed(curve, closed) ==
  FAdd[PolyLine(curve, Len(curve)), Dist(curve[Len(curve)], curve[1])]

\* cv2.arcLength(curve, closed)
arcLength(curve, closed) ==
  IF closed /\ Len(curve) > 1
  THEN FAdd[PolyLine(curve, Len(curve)), Dist(curve[Len(curve)], curve[1])]
  ELSE PolyLine(curve, Len(curve))

RECURSIVE SumFirst(_, _)
SumFirst(xs, n) == IF n = 0 THEN Zero ELSE FAdd[SumFirst(xs, n - 1), xs[n]]

\* np.mean of a non-empty list
np_mean(xs) == FDivInt[SumFirst(xs, Len(xs)), Len(xs)]

\* largest r with r*r <= n, for n = m*m*80000
ISqrt(n, m) == CHOOSE r \in (282 * m)..(283 * m) : r * r <= n /\ n < (r + 1) * (r + 1)

\* the format spec .2f: x in hundredths, rounded to nearest, ties to even
Format2(x) ==
  IF x.k # "fin" THEN [k |-> x.k, h |-> 0]
  ELSE LET n == 200 * x.a + x.d
           m == Abs(x.b)
           r == ISqrt(80000 * m * m, m)
           up == IF x.b >= 0 THEN n + r ELSE n - (r + 1)
           q == IF x.b = 0 THEN n \div (2 * x.d) ELSE up \div (2 * x.d)
           tie == x.b = 0 /\ n % (2 * x.d) = 0
       IN  [k |-> "fin", h |-> IF tie /\ q % 2 # 0 THEN q - 1 ELSE q]

\* ------------------------------------------------------------------ state
VARIABLES
  name,                \* __name__ of the module: "__main__" or "analyze"
  argv,                \* sys.argv
  pc,                  \* position of the single thread of control
  caller,              \* who called measure_tooth_length: "main" or "lib"
  image_path,          \* argument of the current call
  scale_um_per_pixel,  \* argument of the current call
  img, gray, edges,    \* locals of the current call
  contours, lengths,
  next_contour,        \* position of the for loop of line 46 in contours
  avg_length_pixels,
  outcome,             \* how the current call ended: returned value or exception
  scale,               \* the script's variable of line 69
  stdout, stderr,      \* lines written so far
  exitcode,            \* exit status of the process, -1 while it runs
  stages,              \* history: pipeline stages the current call has run
  prev                 \* history: the call before the current one, when the
                       \* caller chose to repeat it

vars ==
  <<name, argv, pc, caller, image_path, scale_um_per_pixel, img, gray, edges,
    contours, lengths, next_contour, avg_length_pixels, outcome, scale,
    stdout, stderr, exitcode, stages, prev>>

args == <<image_path, scale_um_per_pixel>>

locals == <<img, gray, edges, contours, lengths, next_contour, avg_length_pixels>>

process == <<name, argv, scale, stdout, stderr, exitcode>>

NoArg == [file |-> "", scene |-> <<>>]

Pending == [kind |-> "pending", value |-> None, exc |-> "", msg |-> "", arg |-> NoArg]

Return(v) == [kind |-> "return", value |-> v, exc |-> "", msg |-> "", arg |-> NoArg]

Raise(e, m, a) == [kind |-> "raise", value |-> None, exc |-> e, msg |-> m, arg |-> a]

LoadMessage == "Could not load image from "

NoContoursMessage == "No teeth contours detected."

NoPrev == [set |-> FALSE, path |-> NoArg, scale |-> None, outcome |-> Pending]

Init ==
  /\ name \in {"__main__", "analyze"}
  /\ argv \in IF name = "__main__" THEN Argvs ELSE {<<>>}
  /\ pc = "boot"
  /\ caller = "none"
  /\ image_path = NoArg
  /\ scale_um_per_pixel = None
  /\ img = Unbound /\ gray = Unbound /\ edges = Unbound
  /\ contours = <<>> /\ lengths = <<>> /\ next_contour = 0
  /\ avg_length_pixels = None
  /\ outcome = Pending
  /\ scale = None
  /\ stdout = <<>> /\ stderr = <<>>
  /\ exitcode = -1
  /\ stages = <<>>
  /\ prev = NoPrev

\* ----------------------------------------------------- measure_tooth_length
\* the call: a fresh frame with the two arguments bound
Enter(path, s, who) ==
  /\ pc' = "load"
  /\ caller' = who
  /\ image_path' = path
  /\ scale_um_per_pixel' = s
  /\ img' = Unbound /\ gray' = Unbound /\ edges' = Unbound
  /\ contours' = <<>> /\ lengths' = <<>> /\ next_contour' = 0
  /\ avg_length_pixels' = None
  /\ outcome' = Pending
  /\ stages' = <<>>

\* the call ends and control is back in the caller
Leave(o) ==
  /\ outcome' = o
  /\ pc' = IF caller = "main" THEN "main_ret" ELSE "idle"

\* Load without the check of line 30: a None image goes on to line 35
Load_NoCheck ==
  /\ pc = "load"
  /\ img' = imread(image_path)
  /\ stages' = Append(stages, "load")
  /\ pc' = "gray"
  /\ UNCHANGED <<caller, args, gray, edges, contours, lengths, next_contour,
                 avg_length_pixels, outcome, process, prev>>

\* lines 28-31
Load ==
  /\ pc = "load"
  /\ img' = imread(image_path)
  /\ stages' = Append(stages, "load")
  /\ IF img'.val = "None"
     THEN Leave(Raise("ValueError", LoadMessage, image_path))
     ELSE pc' = "gray" /\ outcome' = outcome
  /\ UNCHANGED <<caller, args, gray, edges, contours, lengths, next_contour,
                 avg_length_pixels, process, prev>>

\* line 35; cv2 raises cv2.error when handed None
GrayScale ==
  /\ pc = "gray"
  /\ stages' = Append(stages, "grayscale")
  /\ IF img.val = "array"
     THEN gray' = cvtColor(img) /\ pc' = "canny" /\ outcome' = outcome
     ELSE gray' = gray /\ Leave(Raise("cv2.error", "", NoArg))
  /\ UNCHANGED <<caller, args, img, edges, contours, lengths, next_contour,
                 avg_length_pixels, process, prev>>

\* EdgeDetect with thresholds that vary from call to call: the mask is
\* the detector's, or empty
EdgeDetect_Random ==
  /\ pc = "canny"
  /\ edges' \in {Canny(gray), [val |-> "mask", channels |-> 1, scene |-> <<>>]}
  /\ stages' = Append(stages, "edges")
  /\ pc' = "find"
  /\ UNCHANGED <<caller, args, img, gray, contours, lengths, next_contour,
                 avg_length_pixels, outcome, process, prev>>

\* line 40
EdgeDetect ==
  /\ pc = "canny"
  /\ edges' = Canny(gray)
  /\ stages' = Append(stages, "edges")
  /\ pc' = "find"
  /\ UNCHANGED <<caller, args, img, gray, contours, lengths, next_contour,
                 avg_length_pixels, outcome, process, prev>>

\* lines 44-45
FindContours ==
  /\ pc = "find"
  /\ contours' = findContours(edges)
  /\ lengths' = <<>>
  /\ next_contour' = 1
  /\ stages' = Append(stages, "contours")
  /\ pc' = "loop"
  /\ UNCHANGED <<caller, args, img, gray, edges, avg_length_pixels, outcome,
                 process, prev>>

\* lines 46-49, one iteration
ForContour ==
  /\ pc = "loop"
  /\ next_contour <= Len(contours)
  /\ lengths' = Append(lengths, FDivInt[arcLength(contours[next_contour], FALSE), 2])
  /\ next_contour' = next_contour + 1
  /\ UNCHANGED <<pc, caller, args, img, gray, edges, contours, avg_length_pixels,
                 outcome, process, stages, prev>>

\* CheckLengths that returns 0 for an empty list instead of raising
CheckLengths_Default ==
  /\ pc = "loop"
  /\ next_contour > Len(contours)
  /\ IF lengths = <<>>
     THEN Leave(Return(Zero))
     ELSE pc' = "mean" /\ outcome' = outcome
  /\ UNCHANGED <<caller, args, locals, process, stages, prev>>

\* CheckLengths that starts the pipeline over when the list is empty
CheckLengths_Retry ==
  /\ pc = "loop"
  /\ next_contour > Len(contours)
  /\ pc' = IF lengths = <<>> THEN "load" ELSE "mean"
  /\ UNCHANGED <<caller, args, locals, outcome, process, stages, prev>>

\* the loop is exhausted; lines 51-52
CheckLengths ==
  /\ pc = "loop"
  /\ next_contour > Len(contours)
  /\ IF lengths = <<>>
     THEN Leave(Raise("RuntimeError", NoContoursMessage, NoArg))
     ELSE pc' = "mean" /\ outcome' = outcome
  /\ UNCHANGED <<caller, args, locals, process, stages, prev>>

\* line 54
Mean ==
  /\ pc = "mean"
  /\ avg_length_pixels' = np_mean(lengths)
  /\ pc' = "scale"
  /\ UNCHANGED <<caller, args, img, gray, edges, contours, lengths, next_contour,
                 outcome, process, stages, prev>>

\* ScaleConvert that forgets the multiplication
ScaleConvert_Unscaled ==
  /\ pc = "scale"
  /\ stages' = Append(stages, "scale")
  /\ Leave(Return(avg_length_pixels))
  /\ UNCHANGED <<caller, args, locals, process, prev>>

\* lines 56-60
ScaleConvert ==
  /\ pc = "scale"
  /\ stages' = Append(stages, "scale")
  /\ IF scale_um_per_pixel # None
     THEN Leave(Return(FMul[avg_length_pixels, scale_um_per_pixel]))
     ELSE Leave(Return(avg_length_pixels))
  /\ UNCHANGED <<caller, args, locals, process, prev>>

Step ==
  \/ Load
  \/ GrayScale
  \/ EdgeDetect
  \/ FindContours
  \/ ForContour
  \/ CheckLengths
  \/ Mean
  \/ ScaleConvert

\* ------------------------------------------------------------ the script
UsageText == "Usage: python analyze.py <image_path> [scale_um_per_pixel]"

UsageLine == [kind |-> "usage", text |-> UsageText, arg |-> NoArg,
              value |-> Format2(None), unit |-> ""]

ErrorLine(m, a) == [kind |-> "error", text |-> m, arg |-> a,
                    value |-> Format2(None), unit |-> ""]

SuccessLine(v, u) == [kind |-> "success", text |-> "Average tooth length: ",
                      arg |-> NoArg, value |-> Format2(v), unit |-> u]

Traceback(e) == [kind |-> "traceback", text |-> e, arg |-> NoArg,
                 value |-> Format2(None), unit |-> ""]

\* line 62: the block runs only when the file is executed as a script
ModuleGuard ==
  /\ pc = "boot"
  /\ pc' = IF name = "__main__" THEN "main_argc" ELSE "idle"
  /\ UNCHANGED <<caller, args, locals, outcome, process, stages, prev>>

\* lines 65-67
MainUsage ==
  /\ pc = "main_argc"
  /\ Len(argv) < 2
  /\ stdout' = Append(stdout, UsageLine)
  /\ exitcode' = 1
  /\ pc' = "exited"
  /\ UNCHANGED <<name, argv, scale, stderr, caller, args, locals, outcome, stages, prev>>

\* lines 65, 68-69; a ValueError of float() is not caught and ends the process
MainParse ==
  /\ pc = "main_argc"
  /\ Len(argv) >= 2
  /\ LET s == IF Len(argv) > 2 THEN ParseFloat(argv[3]) ELSE None
     IN  IF s.k = "ValueError"
         THEN /\ stderr' = Append(stderr, Traceback("ValueError"))
              /\ exitcode' = 1
              /\ pc' = "exited"
              /\ scale' = scale
         ELSE /\ scale' = s
              /\ pc' = "main_call"
              /\ UNCHANGED <<stderr, exitcode>>
  /\ UNCHANGED <<name, argv, stdout, caller, args, locals, outcome, stages, prev>>

\* lines 70-71
MainCall ==
  /\ pc = "main_call"
  /\ Enter(argv[2], scale, "main")
  /\ UNCHANGED <<process, prev>>

\* MainPrint that tests the scale for truth instead of for None
MainPrint_Truthy ==
  /\ pc = "main_ret"
  /\ outcome.kind = "return"
  /\ LET unit == IF scale # None /\ scale # Zero THEN "micrometers" ELSE "pixels"
     IN  stdout' = Append(stdout, SuccessLine(outcome.value, unit))
  /\ pc' = "main_end"
  /\ UNCHANGED <<name, argv, scale, stderr, exitcode, caller, args, locals,
                 outcome, stages, prev>>

\* lines 72-73
MainPrint ==
  /\ pc = "main_ret"
  /\ outcome.kind = "return"
  /\ LET unit == IF scale # None THEN "micrometers" ELSE "pixels"
     IN  stdout' = Append(stdout, SuccessLine(outcome.value, unit))
  /\ pc' = "main_end"
  /\ UNCHANGED <<name, argv, scale, stderr, exitcode, caller, args, locals,
                 outcome, stages, prev>>

\* MainExcept without the sys.exit(1) of line 76
MainExcept_NoExit ==
  /\ pc = "main_ret"
  /\ outcome.kind = "raise"
  /\ stdout' = Append(stdout, ErrorLine(outcome.msg, outcome.arg))
  /\ pc' = "main_end"
  /\ UNCHANGED <<name, argv, scale, stderr, exitcode, caller, args, locals,
                 outcome, stages, prev>>

\* lines 74-76
MainExcept ==
  /\ pc = "main_ret"
  /\ outcome.kind = "raise"
  /\ stdout' = Append(stdout, ErrorLine(outcome.msg, outcome.arg))
  /\ exitcode' = 1
  /\ pc' = "exited"
  /\ UNCHANGED <<name, argv, scale, stderr, caller, args, locals, outcome, stages, prev>>

\* the script runs off its end: the interpreter exits with status 0
MainEnd ==
  /\ pc = "main_end"
  /\ exitcode' = 0
  /\ pc' = "exited"
  /\ UNCHANGED <<name, argv, scale, stdout, stderr, caller, args, locals, outcome,
                 stages, prev>>

\* ------------------------------------------- callers that import the module
ThisCall == [set |-> TRUE, path |-> image_path, scale |-> scale_um_per_pixel,
             outcome |-> outcome]

\* the caller lets go of the result of the call that ended; the frame of
\* that call is gone with it
Forget ==
  /\ pc = "idle"
  /\ outcome.kind # "pending"
  /\ image_path' = NoArg
  /\ scale_um_per_pixel' = None
  /\ img' = Unbound /\ gray' = Unbound /\ edges' = Unbound
  /\ contours' = <<>> /\ lengths' = <<>> /\ next_contour' = 0
  /\ avg_length_pixels' = None
  /\ outcome' = Pending
  /\ stages' = <<>>
  /\ prev' = NoPrev
  /\ UNCHANGED <<pc, caller, process>>

\* a call with any arguments
CallFresh ==
  /\ pc = "idle"
  /\ outcome.kind = "pending"
  /\ \E path \in Paths, s \in ScaleArgs : Enter(path, s, "lib")
  /\ prev' = NoPrev
  /\ UNCHANGED process

\* the call that just ended, made again with the same arguments
CallAgain ==
  /\ pc = "idle"
  /\ outcome.kind # "pending"
  /\ Enter(image_path, scale_um_per_pixel, "lib")
  /\ prev' = ThisCall
  /\ UNCHANGED process

\* the call that just ended without a scale, made again with a scale
CallScaled ==
  /\ pc = "idle"
  /\ outcome.kind # "pending"
  /\ scale_um_per_pixel = None
  /\ \E s \in ScaleArgs \ {None} : Enter(image_path, s, "lib")
  /\ prev' = ThisCall
  /\ UNCHANGED process

Next ==
  \/ ModuleGuard
  \/ MainUsage
  \/ MainParse
  \/ MainCall
  \/ MainPrint
  \/ MainExcept
  \/ MainEnd
  \/ Forget
  \/ CallFresh
  \/ CallAgain
  \/ CallScaled
  \/ Step

Spec == Init /\ [][Next]_vars

\* the interpreter runs the single thread to completion: a call that has
\* started keeps taking steps
FairSpec == Spec /\ WF_vars(Step)

\* ------------------------------------------------------------ properties
\* the current call has ended
Finished == outcome.kind # "pending"

\* the current call is running
InCall == pc \in {"load", "gray", "canny", "find", "loop", "mean", "scale"}

StageOrder == <<"load", "grayscale", "edges", "contours", "scale">>

IsPrefix(xs, ys) == Len(xs) <= Len(ys) /\ \A j \in 1..Len(xs) : xs[j] = ys[j]

LoadError == Raise("ValueError", LoadMessage, image_path)

NoContoursError == Raise("RuntimeError", NoContoursMessage, NoArg)

\* a positive finite scale factor
GoodScale(s) == s.k = "fin" /\ Positive(s)

RECURSIVE SumOver(_, _)
\* sum of f over the finite set S
SumOver(f, S) ==
  IF S = {} THEN 0
  ELSE LET x == CHOOSE y \in S : TRUE IN f[x] + SumOver(f, S \ {x})

\* the segments of the open polylines of a scene: <<contour, index of first end>>
Segments(scene) ==
  {cj \in (1..Len(scene)) \X (1..MaxPts) : cj[2] < Len(scene[cj[1]])}

\* the mean over all contours of (open perimeter / 2), summed segment by
\* segment: straight runs count their length, diagonal runs length * sqrt(2)
MeanHalfPerimeter(scene) ==
  LET S == Segments(scene)
      dx == [cj \in S |-> Abs(scene[cj[1]][cj[2]][1] - scene[cj[1]][cj[2] + 1][1])]
      dy == [cj \in S |-> Abs(scene[cj[1]][cj[2]][2] - scene[cj[1]][cj[2] + 1][2])]
      straight == [cj \in S |-> IF dx[cj] = 0 \/ dy[cj] = 0 THEN dx[cj] + dy[cj] ELSE 0]
      diagonal == [cj \in S |-> IF dx[cj] # 0 /\ dy[cj] # 0 THEN dx[cj] ELSE 0]
  IN  Fin[SumOver(straight, S), SumOver(diagonal, S), 2 * Len(scene)]

\* C1: a call whose image path does not resolve to a decodable image ends
\* with the load error (ValueError "Could not load image from <path>"),
\* whatever the scale argument is; it is never in a state with a returned value.
C1_LoadFailureRaises ==
  (Finished /\ image_path.file # "image") => outcome = LoadError

C1_Witness ==
  /\ Finished
  /\ image_path = NoFile
  /\ scale_um_per_pixel = Fin[-1, 0, 1]
  /\ outcome = LoadError

\* C2: a call in which contour extraction yielded zero contours ends with the
\* no-contours error (RuntimeError), never with a returned number, whatever
\* the scale argument is.
C2_NoContoursRaises ==
  (Finished /\ Len(stages) >= 4 /\ contours = <<>>) => outcome = NoContoursError

C2_Witness ==
  /\ Finished
  /\ Len(stages) >= 4
  /\ contours = <<>>
  /\ scale_um_per_pixel = Zero
  /\ outcome = NoContoursError

\* C3: when a call without a scale returned v and the call is made again on
\* the same image with a positive finite scale k, the second call returns
\* v * k; a call without a scale returns the pixel-unit average unchanged.
C3_ScaleLinearity ==
  /\ (/\ Finished
      /\ prev.set /\ prev.path = image_path /\ prev.scale = None
      /\ prev.outcome.kind = "return"
      /\ GoodScale(scale_um_per_pixel))
     => outcome = Return(FMul[prev.outcome.value, scale_um_per_pixel])
  /\ (Finished /\ outcome.kind = "return" /\ scale_um_per_pixel = None)
     => outcome.value = avg_length_pixels

C3_Witness ==
  /\ Finished
  /\ prev.set /\ prev.path = image_path /\ prev.scale = None
  /\ prev.outcome.kind = "return"
  /\ Positive(prev.outcome.value)
  /\ scale_um_per_pixel = Fin[1, 0, 2]
  /\ outcome = Return(FMul[prev.outcome.value, scale_um_per_pixel])

\* C4: a call with a scale factor that is zero, negative or non-finite ends
\* with an invalid-scale error and never returns a number.
C4_InvalidScaleRejected ==
  (Finished /\ scale_um_per_pixel # None /\ ~GoodScale(scale_um_per_pixel))
  => (outcome.kind = "raise"
      /\ (outcome.exc \notin {"ValueError", "RuntimeError"}
          => outcome.exc = "InvalidScaleError"))

\* C5: every value a call returns is a non-negative number.
C5_ResultNonNegative ==
  (Finished /\ outcome.kind = "return") => NonNeg(outcome.value)

\* the script has ended
Exited == pc = "exited"

SuccessLines == {j \in 1..Len(stdout) : stdout[j].kind = "success"}

ErrorLines == {j \in 1..Len(stdout) : stdout[j].kind = "error"}

MissingArgument == name = "__main__" /\ Len(argv) < 2

LoadFailed == outcome.kind = "raise" /\ outcome.exc = "ValueError"

ZeroContoursFound == outcome.kind = "raise" /\ outcome.exc = "RuntimeError"

\* C6 as stated: a script run that ended on a missing image-path argument, a
\* load failure or zero contours exited with code 1 and printed an
\* "Error: <message>" line to standard output.
C6_ErrorLineOnEveryError ==
  (Exited /\ (MissingArgument \/ LoadFailed \/ ZeroContoursFound))
  => (exitcode = 1 /\ ErrorLines # {})

\* C6 amended: a script run that ended on any error exited with code 1; on a
\* load failure or zero contours standard output is the one line
\* "Error: <message>" with the message of the exception, and on a missing
\* image-path argument it is the one usage line, with no "Error:" line.
C6_ExitOneOnEveryError ==
  /\ (Exited /\ outcome.kind # "return") => exitcode = 1
  /\ (Exited /\ LoadFailed) => stdout = <<ErrorLine(LoadMessage, argv[2])>>
  /\ (Exited /\ ZeroContoursFound) => stdout = <<ErrorLine(NoContoursMessage, NoArg)>>
  /\ (Exited /\ MissingArgument) => stdout = <<UsageLine>>

C6_Witness ==
  /\ Exited
  /\ MissingArgument
  /\ exitcode = 1
  /\ stdout = <<UsageLine>>

\* C7: a script run in which the measurement returned exits with code 0, and
\* only after it printed exactly one "Average tooth length" line whose unit is
\* "micrometers" exactly when a scale argument was on the command line and
\* "pixels" otherwise; a run that ends in an error prints no such line.
C7_SuccessLine ==
  /\ (Exited /\ outcome.kind = "return") => exitcode = 0
  /\ exitcode = 0 =>
       /\ outcome.kind = "return"
       /\ stdout = <<SuccessLine(outcome.value,
                                 IF Len(argv) > 2 THEN "micrometers" ELSE "pixels")>>
  /\ exitcode = 1 => SuccessLines = {}
  /\ Cardinality(SuccessLines) <= 1

C7_Witness ==
  /\ Exited
  /\ exitcode = 0
  /\ Len(argv) > 2
  /\ scale = Zero
  /\ stdout[1].unit = "micrometers"

\* C8: a call made again with the same image and the same scale ends as the
\* call before it did, with the same exception or the same returned value,
\* and every call starts with none of its locals bound.
C8_Deterministic ==
  /\ (/\ Finished
      /\ prev.set /\ prev.path = image_path /\ prev.scale = scale_um_per_pixel)
     => outcome = prev.outcome
  /\ pc = "load" =>
       /\ img = Unbound /\ gray = Unbound /\ edges = Unbound
       /\ contours = <<>> /\ lengths = <<>> /\ avg_length_pixels = None

C8_Witness ==
  /\ Finished
  /\ prev.set /\ prev.path = image_path /\ prev.scale = scale_um_per_pixel
  /\ outcome.kind = "return"
  /\ Positive(outcome.value)
  /\ outcome = prev.outcome

\* C9: when a call returns, the pixel-unit average is the arithmetic mean over
\* all detected contours of (open-polyline perimeter / 2): the list of lengths
\* has one entry per contour, in order, a single-point contour contributes 0,
\* and no closing segment is counted.
C9_MeanOfHalfPerimeters ==
  (Finished /\ outcome.kind = "return") =>
    /\ avg_length_pixels = MeanHalfPerimeter(image_path.scene)
    /\ Len(lengths) = Len(image_path.scene)
    /\ \A j \in 1..Len(lengths) :
         /\ lengths[j] = MeanHalfPerimeter(<<image_path.scene[j]>>)
         /\ Len(image_path.scene[j]) = 1 => lengths[j] = Zero
    /\ scale_um_per_pixel = None => outcome.value = MeanHalfPerimeter(image_path.scene)

C9_Witness ==
  /\ Finished
  /\ outcome.kind = "return"
  /\ scale_um_per_pixel = None
  /\ image_path.scene = << <<<<0, 0>>, <<2, 0>>>>, <<<<3, 1>>>> >>
  /\ lengths = <<Fin[1, 0, 1], Zero>>
  /\ outcome.value = Fin[1, 0, 2]

\* the stages run in order, each at most once, and a call that has ended ended
\* in one of the three ways, having run exactly the stages before its end
StagesInOrder ==
  /\ IsPrefix(stages, StageOrder)
  /\ Finished =>
       \/ outcome = LoadError /\ stages = <<"load">>
       \/ outcome = NoContoursError /\ stages = SubSeq(StageOrder, 1, 4)
       \/ outcome.kind = "return" /\ outcome.value # None /\ stages = StageOrder
  /\ ~Finished => outcome = Pending

\* C10: every call ends, in exactly one of three ways: the load error, raised
\* when only the load stage has run; the no-contours error, raised after load,
\* grayscale, edge detection and contour measurement and before the scale is
\* looked at; or one returned number after all five stages.  No stage runs
\* twice and a call that fails leaves no value.
C10_StraightLine == []StagesInOrder /\ (InCall ~> Finished)

C10_Witness ==
  /\ Finished
  /\ outcome = NoContoursError
  /\ stages = <<"load", "grayscale", "edges", "contours">>
  /\ scale_um_per_pixel = Inf
====
